---- MODULE Spec2Model ----
(***************************************************************************)
(* Keepa brand discovery: the two-stage search-and-hydrate orchestration   *)
(* (demoKeepaBrandDiscovery, both variants found in demo.js) and the two   *)
(* HTTP search handlers that call it (api/search.js, server.js).           *)
(*                                                                         *)
(* JavaScript values are encoded with one type per field so that they can  *)
(* be compared: a text field is a string, with Undefined standing for a    *)
(* missing field; a message text is a sequence of word tokens, so that     *)
(* String.includes becomes a contiguous-subsequence test.                  *)
(***************************************************************************)
EXTENDS Integers, Sequences, FiniteSets, TLC

\* ------------------------------------------------------------------ bounds
\* Longest identifier list a search response carries.
MaxAsins == 2
\* Largest number of records a detail response carries.
MaxRecords == 1
\* The batch-size policy constant of the specification (section 4.1, step 4).
\* Neither variant of the code has such a constant.
K == 1

\* ------------------------------------------------------- JavaScript values
Undefined == "undefined"

\* JS truthiness of a text value: undefined and the empty string are falsy.
Truthy(v) == v # Undefined /\ v # ""

\* a || b on text values.
Or(a, b) == IF Truthy(a) THEN a ELSE b

\* haystack.includes(needle) on token sequences.
Includes(haystack, needle) ==
  \E i \in 0..(Len(haystack) - Len(needle)) :
     \A j \in 1..Len(needle) : haystack[i + j] = needle[j]

\* All sequences over S of length at most n.
SeqsUpTo(S, n) == UNION {[1..m -> S] : m \in 0..n}

\* ------------------------------------------------------------ environment
\* process.env.KEEPA_KEY: unset, the placeholder, or a provisioned key.
EnvKeys == {Undefined, "demo-key", "live-key"}
Variants == {"fallback", "strict"}
\* Values of the keyword parameter a request can carry (Undefined: missing).
KeywordInputs == {Undefined, "", "tablecraft", "widget"}
Handlers == {"vercel", "express"}
Methods == {"GET", "POST", "OPTIONS", "PUT"}

DOMAIN_ID == 1

\* --------------------------------------------------------------- provider
Ids == {"B01", "B02"}

\* The provider's error payload (err.response.data.error): missing, an object
\* with a message, or a bare string.
ErrTexts == {<<"rate", "limit", "exceeded">>, <<"bad", "selection">>}
ErrPayloads ==
  {[kind |-> "none", text |-> <<>>]} \cup
  {[kind |-> k, text |-> t] : k \in {"object", "string"}, t \in ErrTexts}

ErrStatuses == {401, 403, 429, 500}

\* A rejected axios call: status 0 is a transport failure without a response.
Failures ==
  {[status |-> 0, error |-> [kind |-> "none", text |-> <<>>]]} \cup
  {[status |-> s, error |-> e] : s \in ErrStatuses, e \in ErrPayloads}

NoFailure == [status |-> 200, error |-> [kind |-> "none", text |-> <<>>]]

\* err.message of the axios error.
AxiosMessage(err) ==
  IF err.status = 0 THEN <<"Network", "Error">>
  ELSE <<"Request", "failed", "with", "status", "code", ToString(err.status)>>

\* What axios.get(queryUrl) can settle to.  hasData: the body is not null;
\* hasList: the body has an asinList field.
QueryResponses ==
  {[ok |-> FALSE, err |-> f, hasData |-> FALSE, hasList |-> FALSE, asinList |-> <<>>] :
      f \in Failures} \cup
  {[ok |-> TRUE, err |-> NoFailure, hasData |-> FALSE, hasList |-> FALSE, asinList |-> <<>>],
   [ok |-> TRUE, err |-> NoFailure, hasData |-> TRUE, hasList |-> FALSE, asinList |-> <<>>]} \cup
  {[ok |-> TRUE, err |-> NoFailure, hasData |-> TRUE, hasList |-> TRUE, asinList |-> l] :
      l \in SeqsUpTo(Ids, MaxAsins)}

\* Raw detail records.  present = FALSE is a null entry of the collection.
\* "B01" can be among the requested identifiers, "B09" never is.
FieldSets ==
  {[title |-> "Cup", brand |-> "Acme", manufacturer |-> "AcmeCo"],
   [title |-> Undefined, brand |-> Undefined, manufacturer |-> "AcmeCo"],
   [title |-> "Cup", brand |-> "Acme", manufacturer |-> Undefined],
   [title |-> "", brand |-> "", manufacturer |-> Undefined]}
FullFields == [title |-> "Cup", brand |-> "Acme", manufacturer |-> "AcmeCo"]
NullRecord ==
  [present |-> FALSE, asin |-> Undefined, title |-> Undefined,
   brand |-> Undefined, manufacturer |-> Undefined]
RawRecord(a, f) ==
  [present |-> TRUE, asin |-> a, title |-> f.title, brand |-> f.brand,
   manufacturer |-> f.manufacturer]
RawRecords ==
  {NullRecord, RawRecord(Undefined, FullFields), RawRecord("B09", FullFields)}
    \cup {RawRecord("B01", f) : f \in FieldSets}

\* What axios.get(productUrl) can settle to.  hasProducts: the body has a
\* products field; shape: that field is an array or a mapping keyed by
\* identifier, its values listed in products in key order.
ProductResponses ==
  {[ok |-> FALSE, err |-> f, hasData |-> FALSE, hasProducts |-> FALSE,
    shape |-> "array", products |-> <<>>] : f \in Failures} \cup
  {[ok |-> TRUE, err |-> NoFailure, hasData |-> FALSE, hasProducts |-> FALSE,
    shape |-> "array", products |-> <<>>],
   [ok |-> TRUE, err |-> NoFailure, hasData |-> TRUE, hasProducts |-> FALSE,
    shape |-> "array", products |-> <<>>]} \cup
  {[ok |-> TRUE, err |-> NoFailure, hasData |-> TRUE, hasProducts |-> TRUE,
    shape |-> s, products |-> p] :
      s \in {"array", "object"}, p \in SeqsUpTo(RawRecords, MaxRecords)}

NoQueryRes ==
  [ok |-> FALSE, err |-> NoFailure, hasData |-> FALSE, hasList |-> FALSE, asinList |-> <<>>]
NoProductRes ==
  [ok |-> FALSE, err |-> NoFailure, hasData |-> FALSE, hasProducts |-> FALSE,
   shape |-> "array", products |-> <<>>]

\* ------------------------------------------------------------------ state
VARIABLES
  variant,     \* which of the two definitions of demoKeepaBrandDiscovery is loaded
  envKey,      \* process.env.KEEPA_KEY at import time
  handler,     \* the HTTP handler serving the request
  method,      \* the request's method
  keyword,     \* the request's keyword
  pc,          \* position of the request: idle, awaitQuery, awaitProduct, settled, responded
  calls,       \* outbound calls issued by this invocation, in order
  queryRes,    \* settlement of the search call, once received
  productRes,  \* settlement of the detail call, once received
  caught,      \* message of the error the outer catch received, <<>> if none
  settled,     \* how the promise of demoKeepaBrandDiscovery settled
  httpStatus   \* status of the HTTP response, 0 before it is sent

vars ==
  <<variant, envKey, handler, method, keyword, pc, calls, queryRes,
    productRes, caught, settled, httpStatus>>


\* ------------------------------------------------------------ credential
\* const KEEPA_KEY = process.env.KEEPA_KEY || "demo-key"
KEEPA_KEY == Or(envKey, "demo-key")

\* ---------------------------------------------------------- outbound calls
\* GET https://api.keepa.com/query?key=..&selection={.. keyword ..}
QueryCall(kw) ==
  [endpoint |-> "query", key |-> KEEPA_KEY, domain |-> DOMAIN_ID,
   term |-> kw, asins |-> <<>>]

\* GET https://api.keepa.com/product?key=..&domain=..&asin=<asins joined by ",">
\* The call is recorded with the identifiers it asks for, in order.
ProductCall(asins) ==
  [endpoint |-> "product", key |-> KEEPA_KEY, domain |-> DOMAIN_ID,
   term |-> Undefined, asins |-> asins]

\* ------------------------------------------------------ promise settlement
Pending == [kind |-> "pending", value |-> <<>>, message |-> <<>>]
Resolved(v) == [kind |-> "resolved", value |-> v, message |-> <<>>]
Rejected(m) == [kind |-> "rejected", value |-> <<>>, message |-> m]

\* One run of the function body between two awaits ends in one of three
\* ways: it returns a value, it throws, or it issues the next call.
Return(v) == [do |-> "return", value |-> v, message |-> <<>>, asins |-> <<>>]
Throw(m) == [do |-> "throw", value |-> <<>>, message |-> m, asins |-> <<>>]
Call(a) == [do |-> "call", value |-> <<>>, message |-> <<>>, asins |-> a]

\* ---------------------------------------------------------- error messages
InvalidKeyMessage ==
  <<"Invalid", "Keepa", "API", "key", ".", "Please", "set", "KEEPA_KEY",
    "environment", "variable", ".">>

ApiErrorMessage(errorMsg) == <<"Keepa", "API", "error", ":">> \o errorMsg

\* JSON.stringify of a string puts it in double quotes.
Stringify(text) == <<"\"">> \o text \o <<"\"">>

\* err.response?.data?.error?.message || JSON.stringify(err.response?.data?.error)
\*   || err.message
QueryErrorMsg(err) ==
  CASE err.error.kind = "object" -> err.error.text
    [] err.error.kind = "string" -> Stringify(err.error.text)
    [] OTHER -> AxiosMessage(err)

\* `${err.response?.data?.error || err.message}`: an object is rendered by
\* its default toString.
ProductErrorMsg(err) ==
  CASE err.error.kind = "object" -> <<"[object Object]">>
    [] err.error.kind = "string" -> err.error.text
    [] OTHER -> AxiosMessage(err)

\* The inner catch around the search call (strict variant).
QueryCatch(err) ==
  IF err.status = 401 \/ err.status = 403
    THEN Throw(InvalidKeyMessage)
    ELSE Throw(ApiErrorMessage(QueryErrorMsg(err)))

\* The inner catch around the detail call (strict variant).
ProductCatch(err) ==
  IF err.status = 401 \/ err.status = 403
    THEN Throw(InvalidKeyMessage)
    ELSE Throw(ApiErrorMessage(ProductErrorMsg(err)))

\* ------------------------------------------------------ after the search
\* DEMO fallback identifiers of the fallback variant.
DemoAsins == <<"B000123456", "B000654321">>

\* A strict variant that does not abort on a failed search call but goes on
\* with the demo identifiers, as the fallback variant does.
StrictAfterQueryLenient(res) ==
  IF ~res.ok THEN Call(DemoAsins)
  ELSE IF ~res.hasData THEN Return(<<>>)
  ELSE LET asins == IF res.hasList THEN res.asinList ELSE <<>>
       IN  IF Len(asins) = 0 THEN Return(<<>>) ELSE Call(asins)

\* Strict variant, from the settlement of the search call to the next await.
StrictAfterQuery(res) ==
  IF ~res.ok THEN QueryCatch(res.err)
  ELSE IF ~res.hasData THEN Return(<<>>)
  ELSE LET asins == IF res.hasList THEN res.asinList ELSE <<>>
       IN  IF Len(asins) = 0 THEN Return(<<>>) ELSE Call(asins)

\* Fallback variant: a failed call is replaced by { data: null }, a missing
\* list by the demo identifiers; an empty list is an array, hence truthy.
FallbackAfterQuery(res) ==
  LET hasList == res.ok /\ res.hasData /\ res.hasList
      asins == IF hasList THEN res.asinList ELSE DemoAsins
  IN  Call(asins)

AfterQuery(res) ==
  IF variant = "strict" THEN StrictAfterQuery(res) ELSE FallbackAfterQuery(res)


\* ------------------------------------------------------ after the details
\* keywordLower.includes(needle), tabulated for the keywords of the model
\* (all lower case, so toLowerCase leaves them unchanged).
KeywordIncludes(kw, needle) ==
  <<kw, needle>> \in {<<"tablecraft", "tablecraft">>, <<"tablecraft", "table">>}

\* keyword.charAt(0).toUpperCase() + keyword.slice(1)
Capitalize(kw) ==
  CASE kw = "tablecraft" -> "Tablecraft"
    [] kw = "widget" -> "Widget"
    [] OTHER -> kw

\* `B00${Math.floor(Math.random() * 1000000)}`: any of these.
RandomAsins == {"B00417", "B0093"}

Product(a, t, b, m) ==
  [present |-> TRUE, asin |-> a, title |-> t, brand |-> b, manufacturer |-> m]

\* DEMO fallback products of the fallback variant; r1 and r2 are the two
\* random identifiers of the generic branch.
getMockProducts(kw, r1, r2) ==
  IF KeywordIncludes(kw, "tablecraft") \/ KeywordIncludes(kw, "table") THEN
    <<Product("B000123456", "TableCraft Stainless Steel Sauce Cup",
              "TableCraft", "TableCraft Products"),
      Product("B000654321", "Table Craft Salt & Pepper Shaker",
              "Table Craft", "Table Craft Products Corp")>>
  ELSE IF KeywordIncludes(kw, "kitchen") \/ KeywordIncludes(kw, "cookware") THEN
    <<Product("B001234567", "KitchenAid Professional Stand Mixer",
              "KitchenAid", "KitchenAid Inc"),
      Product("B007654321", "Kitchen Essentials Non-Stick Cookware Set",
              "Kitchen Essentials", "Kitchen Essentials LLC")>>
  ELSE IF KeywordIncludes(kw, "coffee") \/ KeywordIncludes(kw, "brew") THEN
    <<Product("B002345678", "Coffee Maker with Programmable Timer",
              "BrewMaster", "BrewMaster Appliances"),
      Product("B008765432", "Premium Coffee Beans - Dark Roast",
              "CoffeeHouse", "CoffeeHouse Roasters")>>
  ELSE IF KeywordIncludes(kw, "phone") \/ KeywordIncludes(kw, "mobile") THEN
    <<Product("B003456789", "Smartphone 128GB - Latest Model",
              "TechPhone", "TechPhone Corporation"),
      Product("B009876543", "Wireless Phone Charger Stand",
              "ChargeTech", "ChargeTech Accessories")>>
  ELSE
    <<Product(r1, kw \o " Premium Product", Capitalize(kw),
              kw \o " Manufacturing Co."),
      Product(r2, kw \o " Deluxe Edition", Capitalize(kw) \o " Pro",
              kw \o " Products Inc")>>

\* An entry of the result.
Enriched(a, t, b, m) == [asin |-> a, title |-> t, brand |-> b, manufacturer |-> m]

\* Strict variant: the map of step 4.  a || b || c groups to the left.
Normalize(p) ==
  Enriched(p.asin,
           Or(p.title, "N/A"),
           Or(Or(p.brand, p.manufacturer), "N/A"),
           Or(Or(p.manufacturer, p.brand), "N/A"))

\* Fallback variant: the fields are copied as they are.
Copy(p) == Enriched(p.asin, p.title, p.brand, p.manufacturer)

\* .filter(p => p && p.asin)
Valid(p) == p.present /\ Truthy(p.asin)

\* products.map(...) of either variant.
NormalizeAll(products) == [i \in 1..Len(products) |-> Normalize(products[i])]
CopyAll(products) == [i \in 1..Len(products) |-> Copy(products[i])]

\* Strict variant, from the settlement of the detail call to the return.
\* Object.values lists an array's elements and a mapping's values alike.
StrictAfterProduct(res) ==
  IF ~res.ok THEN ProductCatch(res.err)
  ELSE IF ~res.hasData \/ ~res.hasProducts THEN Return(<<>>)
  ELSE Return(NormalizeAll(SelectSeq(res.products, Valid)))

TypeErrorMessage(what) == <<what, "is", "not", "a", "function">>
NullReadMessage == <<"Cannot", "read", "properties", "of", "null">>

\* Fallback variant: a failed call is replaced by { data: null }, missing
\* products by the mock products.  products.map exists on arrays only, and
\* reading p.asin of a null entry throws.
FallbackAfterProduct(res, kw, r1, r2) ==
  LET real == res.ok /\ res.hasData /\ res.hasProducts
      products == IF real THEN res.products ELSE getMockProducts(kw, r1, r2)
  IN  IF real /\ res.shape = "object" THEN Throw(TypeErrorMessage("products.map"))
      ELSE IF \E i \in 1..Len(products) : ~products[i].present
        THEN Throw(NullReadMessage)
      ELSE Return(CopyAll(products))

AfterProduct(res, kw, r1, r2) ==
  IF variant = "strict" THEN StrictAfterProduct(res)
  ELSE FallbackAfterProduct(res, kw, r1, r2)

\* A function without the outer try/catch: what was thrown leaves it.
OuterCatchRethrow(step) == step

\* The outer try/catch of both variants: whatever was thrown is logged and
\* the function returns [].
OuterCatch(step) == IF step.do = "throw" THEN Return(<<>>) ELSE step


\* ------------------------------------------------------------ HTTP handlers
\* api/search.js: the status sent once the discovery has settled.
VercelStatus(outcome) ==
  IF outcome.kind = "rejected" THEN
    IF \/ Includes(outcome.message, <<"Invalid", "Keepa", "API", "key">>)
       \/ Includes(outcome.message, <<"KEEPA_KEY">>)
      THEN 401
    ELSE IF Includes(outcome.message, <<"rate", "limit">>) THEN 429
    ELSE 500
  ELSE 200

\* server.js: res.json on success, the catch of the route otherwise.
ExpressStatus(outcome) == IF outcome.kind = "rejected" THEN 500 ELSE 200

\* The status a handler sends before calling the discovery, 0 if it calls it.
\* bodyOk: a POST body that is a string parses as JSON.
VercelEarlyStatus(m, kw, bodyOk) ==
  IF m = "OPTIONS" THEN 200
  ELSE IF m \notin {"GET", "POST"} THEN 405
  ELSE IF m = "POST" /\ ~bodyOk THEN 500
  ELSE IF ~Truthy(kw) THEN 400
  ELSE 0

ExpressEarlyStatus(kw) == IF ~Truthy(kw) THEN 400 ELSE 0

\* ---------------------------------------------------------------- actions
Init ==
  /\ variant \in Variants
  /\ envKey \in EnvKeys
  /\ handler = "none"
  /\ method = "none"
  /\ keyword = Undefined
  /\ pc = "idle"
  /\ calls = <<>>
  /\ queryRes = NoQueryRes
  /\ productRes = NoProductRes
  /\ caught = <<>>
  /\ settled = Pending
  /\ httpStatus = 0

\* The synchronous start of demoKeepaBrandDiscovery(kw): the selection and
\* the URL are built and the search call is issued; no check of the key.
Invoke(kw) ==
  /\ calls' = Append(calls, QueryCall(kw))
  /\ pc' = "awaitQuery"

\* A request arrives and its handler runs up to its first await or response.
Request(h, m, kw, bodyOk) ==
  /\ pc = "idle"
  /\ h = "express" => m \in {"GET", "POST"} /\ bodyOk
  /\ handler' = h
  /\ method' = m
  /\ keyword' = kw
  /\ LET early == IF h = "vercel" THEN VercelEarlyStatus(m, kw, bodyOk)
                  ELSE ExpressEarlyStatus(kw)
     IN  IF early # 0
           THEN /\ httpStatus' = early
                /\ pc' = "responded"
                /\ calls' = calls
           ELSE /\ httpStatus' = httpStatus
                /\ Invoke(kw)
  /\ UNCHANGED <<variant, envKey, queryRes, productRes, caught, settled>>

\* The function body runs on from an await: it issues the next call or the
\* promise settles.
Continue(inner) ==
  LET step == OuterCatch(inner)
  IN  /\ caught' = inner.message
      /\ CASE step.do = "call" ->
                /\ calls' = Append(calls, ProductCall(step.asins))
                /\ pc' = "awaitProduct"
                /\ settled' = settled
           [] step.do = "return" ->
                /\ calls' = calls
                /\ pc' = "settled"
                /\ settled' = Resolved(step.value)
           [] OTHER ->
                /\ calls' = calls
                /\ pc' = "settled"
                /\ settled' = Rejected(step.message)

\* The search call settles.
QueryReturns(res) ==
  /\ pc = "awaitQuery"
  /\ queryRes' = res
  /\ Continue(AfterQuery(res))
  /\ UNCHANGED <<variant, envKey, handler, method, keyword, productRes, httpStatus>>

\* The detail call settles.
ProductReturns(res, r1, r2) ==
  /\ pc = "awaitProduct"
  /\ productRes' = res
  /\ Continue(AfterProduct(res, keyword, r1, r2))
  /\ UNCHANGED <<variant, envKey, handler, method, keyword, queryRes, httpStatus>>

\* The handler resumes with the settled discovery and sends its response.
Respond ==
  /\ pc = "settled"
  /\ httpStatus' = IF handler = "vercel" THEN VercelStatus(settled)
                   ELSE ExpressStatus(settled)
  /\ pc' = "responded"
  /\ UNCHANGED <<variant, envKey, handler, method, keyword, calls, queryRes,
                 productRes, caught, settled>>

Next ==
  \/ \E h \in Handlers, m \in Methods, kw \in KeywordInputs,
        bodyOk \in BOOLEAN : Request(h, m, kw, bodyOk)
  \/ \E res \in QueryResponses : QueryReturns(res)
  \/ \E res \in ProductResponses, r1 \in RandomAsins, r2 \in RandomAsins :
        ProductReturns(res, r1, r2)
  \/ Respond

Spec == Init /\ [][Next]_vars

\* The strict variant alone (demo.js, second definition).
InitStrict == Init /\ variant = "strict"
SpecStrict == InitStrict /\ [][Next]_vars


\* ------------------------------------------------------- state predicates
Range(f) == {f[i] : i \in DOMAIN f}
Min(a, b) == IF a <= b THEN a ELSE b

\* demoKeepaBrandDiscovery has been called for this request.
Invoked ==
  \/ pc \in {"awaitQuery", "awaitProduct", "settled"}
  \/ pc = "responded" /\ settled.kind # "pending"

\* Its promise has settled.
Ended == settled.kind # "pending"

\* The credential is absent from the environment or is the placeholder.
CredentialMissing == envKey = Undefined \/ envKey = "demo-key"

QueryReceived == queryRes # NoQueryRes
ProductReceived == productRes # NoProductRes
QueryFailed == QueryReceived /\ ~queryRes.ok
ProductFailed == ProductReceived /\ ~productRes.ok

\* The outbound calls made to one endpoint, as positions in calls.
CallsTo(e) == {i \in DOMAIN calls : calls[i].endpoint = e}

\* The identifiers asked for in the detail calls of this invocation.
RequestedIds == UNION {Range(calls[i].asins) : i \in CallsTo("product")}

\* The detail call delivered a collection of records.
DetailDelivered ==
  ProductReceived /\ productRes.ok /\ productRes.hasData /\ productRes.hasProducts

\* ------------------------------------------------------------------ claims

\* C1: if the credential is absent or is the placeholder "demo-key", an
\* invocation of the discovery issues no outbound call and ends by failing
\* (with a configuration error), never by returning a result.
C1_MissingCredentialFailsWithoutCalls ==
  (CredentialMissing /\ Invoked) =>
     /\ calls = <<>>
     /\ Ended => settled.kind = "rejected"

\* C2: whenever the search call or the detail call failed, the discovery
\* ends by surfacing an error to its caller, never by returning a result.
C2_FailureSurfacesError ==
  (Ended /\ (QueryFailed \/ ProductFailed)) => settled.kind = "rejected"

\* C3: within one invocation at most one search call and at most one detail
\* call are issued, the search call first; a detail call is issued only once
\* the search call has returned successfully, and never after it failed.
C3_CallsOrderedSingleAttempt ==
  /\ Cardinality(CallsTo("query")) <= 1
  /\ Cardinality(CallsTo("product")) <= 1
  /\ Invoked => Len(calls) >= 1 /\ calls[1].endpoint = "query"
  /\ CallsTo("product") # {} => QueryReceived /\ queryRes.ok
  /\ QueryFailed => CallsTo("product") = {}

\* C3 witness: the search call failed with status 401 and the invocation has
\* ended, having issued the search call alone.
C3_Witness ==
  /\ QueryFailed
  /\ queryRes.err.status = 401
  /\ Ended
  /\ Len(calls) = 1

\* C4: if the search call succeeds with an empty identifier list, or with a
\* body that lacks the list, no detail call is issued and the discovery
\* returns the empty result as a success.
C4_EmptyListReturnsEmptyWithoutDetailCall ==
  (/\ QueryReceived
   /\ queryRes.ok
   /\ queryRes.hasData
   /\ (~queryRes.hasList \/ queryRes.asinList = <<>>)) =>
     /\ CallsTo("product") = {}
     /\ Ended
     /\ settled = Resolved(<<>>)

\* The first min(n, K) identifiers of a list.
FirstK(list) == SubSeq(list, 1, Min(Len(list), K))

\* C5: a detail call asks for exactly the first min(n, K) identifiers of the
\* search call's list, in order, and a returned result has at most K records.
C5_BatchBound ==
  /\ \A i \in CallsTo("product") : calls[i].asins = FirstK(queryRes.asinList)
  /\ settled.kind = "resolved" => Len(settled.value) <= K

\* C6: with a non-empty keyword and a valid credential the discovery ends
\* either with an error or with a result whose every record carries an
\* identifier that was asked for in the detail call of the invocation.
C6_ResultIdentifiersWereRequested ==
  (Ended /\ Truthy(keyword) /\ ~CredentialMissing) =>
     \/ settled.kind = "rejected"
     \/ \A i \in DOMAIN settled.value : settled.value[i].asin \in RequestedIds

\* C7: every record of a returned result comes from a record of the detail
\* response that has its own identifier; when the detail call delivered no
\* records the result is empty.
C7_RecordsNeverFabricated ==
  settled.kind = "resolved" =>
     \A i \in DOMAIN settled.value :
        /\ DetailDelivered
        /\ \E j \in DOMAIN productRes.products :
              /\ Valid(productRes.products[j])
              /\ settled.value[i].asin = productRes.products[j].asin

\* The error kind the claim gives to a failed call, by its status.
ExpectedKind(status) ==
  IF status \in {401, 403} THEN "AuthError"
  ELSE IF status = 429 THEN "RateLimitError"
  ELSE "UpstreamError"

\* The kind of a raised error, <<>> standing for no error.  Every error of
\* the code is a plain Error, so its kind shows in its message alone: by the
\* tests api/search.js applies to it.
KindOf(message) ==
  IF message = <<>> THEN "none"
  ELSE IF \/ Includes(message, <<"Invalid", "Keepa", "API", "key">>)
          \/ Includes(message, <<"KEEPA_KEY">>) THEN "AuthError"
  ELSE IF Includes(message, <<"rate", "limit">>) THEN "RateLimitError"
  ELSE "UpstreamError"

\* C8: the error raised for a failed search call and for a failed detail
\* call is classified alike by status: 401 or 403 is an AuthError, 429 a
\* RateLimitError, anything else an UpstreamError.
C8_ClassificationByStatus ==
  /\ (QueryFailed /\ Ended) => KindOf(caught) = ExpectedKind(queryRes.err.status)
  /\ (ProductFailed /\ Ended) => KindOf(caught) = ExpectedKind(productRes.err.status)

\* The body of a POST could not be parsed, so that no keyword was read.
ParseFailed ==
  handler = "vercel" /\ method = "POST" /\ httpStatus = 500 /\ ~Ended

FailedStatuses ==
  (IF QueryFailed THEN {queryRes.err.status} ELSE {}) \cup
  (IF ProductFailed THEN {productRes.err.status} ELSE {})

\* The status the claim gives to a request whose keyword is not empty.
ExpectedStatus ==
  IF FailedStatuses \cap {401, 403} # {} THEN 401
  ELSE IF 429 \in FailedStatuses THEN 429
  ELSE IF FailedStatuses # {} THEN 500
  ELSE 200

\* C9: a search request without a keyword is answered 400 and the discovery
\* is not invoked; otherwise a provider auth failure is answered 401, a rate
\* limit 429, any other failure 500 and a success 200.
C9_StatusMapping ==
  (pc = "responded" /\ method \in {"GET", "POST"} /\ ~ParseFailed) =>
     /\ ~Truthy(keyword) => httpStatus = 400 /\ ~Invoked
     /\ Truthy(keyword) => httpStatus = ExpectedStatus

\* The record the claim derives from a detail record: title, else "N/A";
\* brand, else manufacturer, else "N/A"; manufacturer, else brand, else "N/A".
Fallback3(a, b, c) == IF Truthy(a) THEN a ELSE IF Truthy(b) THEN b ELSE c
ExpectedProduct(p) ==
  Enriched(p.asin,
           Fallback3(p.title, "N/A", "N/A"),
           Fallback3(p.brand, p.manufacturer, "N/A"),
           Fallback3(p.manufacturer, p.brand, "N/A"))

\* C10: the result of a discovery whose detail call delivered records is the
\* normalization of the records that have an identifier, the others dropped.
C10_Normalization ==
  (Ended /\ DetailDelivered) =>
     LET kept == SelectSeq(productRes.products, Valid)
     IN  settled = Resolved([i \in 1..Len(kept) |-> ExpectedProduct(kept[i])])


\* ------------------------------------------------ concurrent invocations
\* Several invocations of the strict definition in flight in one process,
\* suspended and resumed at their two awaits in any order.  Here keyword, pc,
\* calls, queryRes, productRes, caught and settled hold one value for each
\* invocation; envKey (behind KEEPA_KEY) is the module's state, which all
\* invocations read; handler, method and httpStatus are not used.
Invocations == {1, 2}

\* Where invocation i keeps its parameter and its let/const bindings
\* (keyword, queryRes, productRes): every call of the function has its own.
SharedFrame(i) == 1
Frame(i) == i

ConcKeywords == {"tablecraft", "widget"}

\* The provider's answers in the concurrent runs.
ConcQueryResponses ==
  {r \in QueryResponses :
     \/ ~r.ok /\ r.err.error.kind = "none" /\ r.err.status \in {0, 401}
     \/ r.ok /\ ~r.hasList
     \/ r.ok /\ r.asinList \in {<<>>, <<"B01">>, <<"B01", "B02">>}}

ConcProductResponses ==
  {r \in ProductResponses :
     \/ ~r.ok /\ r.err.error.kind = "none" /\ r.err.status \in {0, 429}
     \/ r.ok /\ ~r.hasProducts
     \/ /\ r.ok
        /\ r.shape = "object"
        /\ r.products \in {<<>>, <<NullRecord>>, <<RawRecord("B01", FullFields)>>,
                           <<RawRecord("B09", FullFields)>>}}

InitConc ==
  /\ variant = "strict"
  /\ envKey \in EnvKeys
  /\ handler = "none"
  /\ method = "none"
  /\ httpStatus = 0
  /\ keyword = [i \in Invocations |-> Undefined]
  /\ pc = [i \in Invocations |-> "idle"]
  /\ calls = [i \in Invocations |-> <<>>]
  /\ queryRes = [i \in Invocations |-> NoQueryRes]
  /\ productRes = [i \in Invocations |-> NoProductRes]
  /\ caught = [i \in Invocations |-> <<>>]
  /\ settled = [i \in Invocations |-> Pending]

\* Invocation i runs on from an await.
ConcContinue(i, inner) ==
  LET step == OuterCatch(inner)
  IN  /\ caught' = [caught EXCEPT ![i] = inner.message]
      /\ CASE step.do = "call" ->
                /\ calls' = [calls EXCEPT ![i] = Append(@, ProductCall(step.asins))]
                /\ pc' = [pc EXCEPT ![i] = "awaitProduct"]
                /\ settled' = settled
           [] step.do = "return" ->
                /\ calls' = calls
                /\ pc' = [pc EXCEPT ![i] = "settled"]
                /\ settled' = [settled EXCEPT ![i] = Resolved(step.value)]
           [] OTHER ->
                /\ calls' = calls
                /\ pc' = [pc EXCEPT ![i] = "settled"]
                /\ settled' = [settled EXCEPT ![i] = Rejected(step.message)]

\* demoKeepaBrandDiscovery(kw) is called: invocation i issues its search call.
ConcInvoke(i, kw) ==
  /\ pc[i] = "idle"
  /\ keyword' = [keyword EXCEPT ![Frame(i)] = kw]
  /\ calls' = [calls EXCEPT ![i] = Append(@, QueryCall(kw))]
  /\ pc' = [pc EXCEPT ![i] = "awaitQuery"]
  /\ UNCHANGED <<variant, envKey, handler, method, httpStatus, queryRes,
                 productRes, caught, settled>>

\* The search call of invocation i settles.
ConcQueryReturns(i, res) ==
  /\ pc[i] = "awaitQuery"
  /\ queryRes' = [queryRes EXCEPT ![Frame(i)] = res]
  /\ ConcContinue(i, AfterQuery(res))
  /\ UNCHANGED <<variant, envKey, handler, method, httpStatus, keyword, productRes>>

\* The detail call of invocation i settles.
ConcProductReturns(i, res, r1, r2) ==
  /\ pc[i] = "awaitProduct"
  /\ productRes' = [productRes EXCEPT ![Frame(i)] = res]
  /\ ConcContinue(i, AfterProduct(res, keyword[Frame(i)], r1, r2))
  /\ UNCHANGED <<variant, envKey, handler, method, httpStatus, keyword, queryRes>>

NextConc ==
  \/ \E i \in Invocations, kw \in ConcKeywords : ConcInvoke(i, kw)
  \/ \E i \in Invocations, res \in ConcQueryResponses : ConcQueryReturns(i, res)
  \/ \E i \in Invocations, res \in ConcProductResponses,
        r1 \in RandomAsins, r2 \in RandomAsins : ConcProductReturns(i, res, r1, r2)

SpecConc == InitConc /\ [][NextConc]_vars

\* What an invocation running alone issues and returns, given its keyword
\* and the answers to its own calls.
AloneStep1(qres) == OuterCatch(AfterQuery(qres))
AloneStep2(kw, pres) ==
  LET r == CHOOSE x \in RandomAsins : TRUE
  IN  OuterCatch(AfterProduct(pres, kw, r, r))
AsSettlement(step) ==
  IF step.do = "return" THEN Resolved(step.value) ELSE Rejected(step.message)
AloneCalls(kw, qres) ==
  IF qres = NoQueryRes \/ AloneStep1(qres).do # "call" THEN <<QueryCall(kw)>>
  ELSE <<QueryCall(kw), ProductCall(AloneStep1(qres).asins)>>
AloneResult(kw, qres, pres) ==
  IF AloneStep1(qres).do # "call" THEN AsSettlement(AloneStep1(qres))
  ELSE AsSettlement(AloneStep2(kw, pres))

\* The calls and the result of invocation i are those of a run alone on its
\* own keyword and its own answers.
AsIfAlone(i) ==
  /\ pc[i] = "idle" => calls[i] = <<>> /\ settled[i] = Pending
  /\ pc[i] # "idle" =>
        calls[i] = AloneCalls(keyword[Frame(i)], queryRes[Frame(i)])
  /\ pc[i] \in {"awaitQuery", "awaitProduct"} => settled[i] = Pending
  /\ pc[i] = "settled" =>
        settled[i] = AloneResult(keyword[Frame(i)], queryRes[Frame(i)],
                                 productRes[Frame(i)])

\* A step in which invocation i does not move changes none of its bindings,
\* calls or result.
Untouched(i) ==
  pc'[i] = pc[i] =>
     /\ keyword'[Frame(i)] = keyword[Frame(i)]
     /\ queryRes'[Frame(i)] = queryRes[Frame(i)]
     /\ productRes'[Frame(i)] = productRes[Frame(i)]
     /\ calls'[i] = calls[i]
     /\ caught'[i] = caught[i]
     /\ settled'[i] = settled[i]

\* C11: concurrent invocations share no mutable state: no step changes the
\* module's state or anything of an invocation other than the one that moves,
\* and under every interleaving each invocation's calls and result are those
\* of a run alone on its own keyword and its own provider answers.
C11_InvocationsIndependent ==
  /\ [](\A i \in Invocations : AsIfAlone(i))
  /\ [][/\ envKey' = envKey
        /\ variant' = variant
        /\ \A i \in Invocations : Untouched(i)]_vars

\* C11 witness: both invocations are suspended at their detail calls, on
\* different keywords and different identifiers.
C11_Witness ==
  /\ pc[1] = "awaitProduct"
  /\ pc[2] = "awaitProduct"
  /\ keyword[1] # keyword[2]
  /\ calls[1][2].asins # calls[2][2].asins


\* C12: demoKeepaBrandDiscovery never rejects: whatever the provider does,
\* its promise resolves to an array, the empty one whenever an error was
\* thrown inside it; so a request that reached the discovery is answered 200,
\* never by the 401, 429 or 500 branch a handler has for a rejected discovery.
C12_DiscoveryNeverRejects ==
  /\ Ended => settled.kind = "resolved"
  /\ (Ended /\ caught # <<>>) => settled = Resolved(<<>>)
  /\ (pc = "responded" /\ Ended) => httpStatus = 200

\* C12 witness: the search call was refused with status 401, the error thrown
\* for it was caught, and the handler has answered.
C12_Witness ==
  /\ QueryFailed
  /\ queryRes.err.status = 401
  /\ KindOf(caught) = "AuthError"
  /\ pc = "responded"

====
